---- MODULE Spec2Model ----
(***************************************************************************)
(* A model of repo2docker's DevContainerBuildPack                          *)
(* (src/repo2docker/buildpacks/devcontainer.py).                           *)
(*                                                                         *)
(* Text is a sequence of pieces: one-character strings where the code      *)
(* scans, quotes or joins characters, whole template lines and whole       *)
(* ${...} openers where it only concatenates or searches for them.         *)
(* Python's None is the record NoneVal; a Python str is Str(chars).        *)
(***************************************************************************)
EXTENDS Naturals, Integers, Sequences, FiniteSets, TLC

VARIABLES
    content,          \* the text handed to _strip_jsonc_comments
    files,            \* the repository: path |-> file, for the paths that exist
    binder_dir,       \* BuildPack.binder_dir: <<>> or the configuration subdirectory
    base_image,       \* self.base_image
    ctor_base_image,  \* the base image the instance was constructed with
    cache,            \* the lru_cache of each cached method, for this instance
    op,               \* the name of the last operation ("" before any)
    arg,              \* the argument of that call
    ret,              \* what that call returned (a Raise record if it raised)
    computed,         \* the cached methods whose body that call ran
    first_parse       \* history: what the first parse on the instance gave (a
                      \* manifest or a Raise record) since the location and
                      \* parse caches were last cleared; None before it

vars == <<content, files, binder_dir, base_image, ctor_base_image, cache, op, arg, ret, computed,
          first_parse>>

----------------------------------------------------------------------------
(* Bounds of the model.                                                    *)

\* Longest manifest text handed to the comment stripper.
MaxLen == 5

\* Longest string command, and longest token of a list command.
MaxTokLen == 2

\* Environment values have at most MaxValLen pieces.
MaxValLen == 2

\* Longest text of the user's Dockerfile.
MaxDockerLen == 3

\* The longest list of extensions a manifest declares.
MaxExts == 2

----------------------------------------------------------------------------
(* Values.                                                                 *)

NoneVal == [t |-> "none"]

Str(s) == [t |-> "str", s |-> s]

\* Every sequence over alphabet A of length at most n.
SeqsUpTo(A, n) == UNION {[1..k -> A] : k \in 0..n}

\* Python's s[i:i+2] at the 1-based position i.
Slice2(s, i) == SubSeq(s, i, IF i + 1 <= Len(s) THEN i + 1 ELSE Len(s))

----------------------------------------------------------------------------
(* The comment-stripping lexer: _strip_jsonc_comments.                     *)

QUOTE == "\""

BACKSLASH == "\\"

NEWLINE == "\n"

\* As SkipLineComment, but swallowing the newline that ends the comment.
RECURSIVE SkipLineCommentPastNewline(_, _)
SkipLineCommentPastNewline(s, i) ==
    IF i <= Len(s)
    THEN IF s[i] # NEWLINE THEN SkipLineCommentPastNewline(s, i + 1) ELSE i + 1
    ELSE i

\* The inner loop of the line-comment branch: advance to the next newline
\* (or to the end), and stop ON it.
RECURSIVE SkipLineComment(_, _)
SkipLineComment(s, i) ==
    IF i <= Len(s) /\ s[i] # NEWLINE THEN SkipLineComment(s, i + 1) ELSE i

\* The inner loop of the block-comment branch, entered after `i += 2`:
\* `while i < len(content) - 1`, 0-based, is `i < Len(s)`, 1-based.
RECURSIVE SkipBlockComment(_, _)
SkipBlockComment(s, i) ==
    IF i < Len(s)
    THEN IF Slice2(s, i) = <<"*", "/">> THEN i + 2 ELSE SkipBlockComment(s, i + 1)
    ELSE i

\* The outer while loop, one iteration per call.
RECURSIVE StripLoop(_, _, _, _, _)
StripLoop(s, i, in_string, escape_next, result) ==
    IF i > Len(s) THEN result
    ELSE LET char == s[i] IN
        IF escape_next
        THEN StripLoop(s, i + 1, in_string, FALSE, Append(result, char))
        ELSE IF char = BACKSLASH /\ in_string
        THEN StripLoop(s, i + 1, in_string, TRUE, Append(result, char))
        ELSE IF char = QUOTE /\ ~escape_next
        THEN StripLoop(s, i + 1, ~in_string, escape_next, Append(result, char))
        ELSE IF ~in_string /\ Slice2(s, i) = <<"/", "/">>
        THEN StripLoop(s, SkipLineComment(s, i), in_string, escape_next, result)
        ELSE IF ~in_string /\ Slice2(s, i) = <<"/", "*">>
        THEN StripLoop(s, SkipBlockComment(s, i + 2), in_string, escape_next, result)
        ELSE StripLoop(s, i + 1, in_string, escape_next, Append(result, char))

\* As _strip_jsonc_comments, but scanning for comments with no notion of an
\* escaped quote: every quote toggles in_string.
RECURSIVE StripLoopNoEscape(_, _, _, _)
StripLoopNoEscape(s, i, in_string, result) ==
    IF i > Len(s) THEN result
    ELSE IF s[i] = QUOTE
    THEN StripLoopNoEscape(s, i + 1, ~in_string, Append(result, s[i]))
    ELSE IF ~in_string /\ Slice2(s, i) = <<"/", "/">>
    THEN StripLoopNoEscape(s, SkipLineComment(s, i), in_string, result)
    ELSE IF ~in_string /\ Slice2(s, i) = <<"/", "*">>
    THEN StripLoopNoEscape(s, SkipBlockComment(s, i + 2), in_string, result)
    ELSE StripLoopNoEscape(s, i + 1, in_string, Append(result, s[i]))

_strip_jsonc_comments_no_escape(s) == StripLoopNoEscape(s, 1, FALSE, <<>>)

_strip_jsonc_comments(s) == StripLoop(s, 1, FALSE, FALSE, <<>>)

----------------------------------------------------------------------------
(* JSON values of the manifest.  A missing key is Absent; null is NoneVal. *)

Absent == [t |-> "absent"]

Num(n) == [t |-> "num", n |-> n]

Bool(b) == [t |-> "bool", b |-> b]

\* A JSON array of strings, each a sequence of characters.
List(parts) == [t |-> "list", parts |-> parts]

\* A JSON object, in declaration order: a sequence of [name, value] entries.
Dict(items) == [t |-> "dict", items |-> items]

Entry(name, value) == [name |-> name, value |-> value]

\* dict.get(key): None when the key is missing.
Get(v) == IF v = Absent THEN NoneVal ELSE v

\* Python's truth value of a JSON value (`if on_create:`, `if formatted:`).
Truthy(v) ==
    CASE v.t = "str" -> v.s # <<>>
      [] v.t = "list" -> v.parts # <<>>
      [] v.t = "dict" -> v.items # <<>>
      [] v.t = "num" -> v.n # 0
      [] v.t = "bool" -> v.b
      [] OTHER -> FALSE

\* sep.join(parts) over texts.
RECURSIVE Join(_, _)
Join(parts, sep) ==
    IF parts = <<>> THEN <<>>
    ELSE IF Len(parts) = 1 THEN parts[1]
    ELSE parts[1] \o sep \o Join(Tail(parts), sep)

\* The concatenation of a sequence of texts.
Concat(parts) == Join(parts, <<>>)

----------------------------------------------------------------------------
(* The command normalizer: _format_lifecycle_command.                      *)

\* The characters shlex.quote leaves alone: [A-Za-z0-9_@%+=:,./-].
SafeChars ==
    {"a", "b", "c", "d", "e", "f", "g", "h", "i", "j", "k", "l", "m",
     "n", "o", "p", "q", "r", "s", "t", "u", "v", "w", "x", "y", "z",
     "A", "B", "C", "D", "E", "F", "G", "H", "I", "J", "K", "L", "M",
     "N", "O", "P", "Q", "R", "S", "T", "U", "V", "W", "X", "Y", "Z",
     "0", "1", "2", "3", "4", "5", "6", "7", "8", "9",
     "_", "@", "%", "+", "=", ":", ",", ".", "/", "-"}

APOSTROPHE == "'"

\* s.replace("'", "'\"'\"'")
RECURSIVE EscapeApostrophes(_)
EscapeApostrophes(s) ==
    IF s = <<>> THEN <<>>
    ELSE (IF Head(s) = APOSTROPHE
          THEN <<APOSTROPHE, QUOTE, APOSTROPHE, QUOTE, APOSTROPHE>>
          ELSE <<Head(s)>>) \o EscapeApostrophes(Tail(s))

\* As shlex_quote, but returning every token as it is.
shlex_unquoted(s) == s

\* shlex.quote(s), as called on each part of a list command.
shlex_quote(s) ==
    IF s = <<>> THEN <<APOSTROPHE, APOSTROPHE>>
    ELSE IF \A k \in 1..Len(s) : s[k] \in SafeChars THEN s
    ELSE <<APOSTROPHE>> \o EscapeApostrophes(s) \o <<APOSTROPHE>>

\* " && \\\n": the separator of the dict branch.
AndContinue == <<" ", "&", "&", " ", BACKSLASH, NEWLINE>>

\* f"# {name}"
CommentLine(name) == <<"#", " ">> \o name

\* The dict branch's `commands` list: for each entry whose formatted value
\* is truthy, the comment line and then the command, as two list elements.
RECURSIVE DictCommands(_, _)
DictCommands(items, fmt) ==
    IF items = <<>> THEN <<>>
    ELSE (IF Truthy(fmt[1])
          THEN <<CommentLine(items[1].name), fmt[1].s>>
          ELSE <<>>) \o DictCommands(Tail(items), Tail(fmt))

\* As _format_lifecycle_command, but shell-quoting a string command as if it
\* were a single token.
_format_lifecycle_command_quoting(command) ==
    IF command.t = "str" THEN Str(shlex_quote(command.s)) ELSE NoneVal

\* As _format_lifecycle_command, but returning "" where it returns None.
_format_lifecycle_command_empty(command) ==
    IF command.t = "str" THEN command ELSE Str(<<>>)

RECURSIVE _format_lifecycle_command(_)
_format_lifecycle_command(command) ==
    CASE command.t = "none" -> NoneVal
      [] command.t = "str" -> command
      [] command.t = "list" ->
            Str(Join([k \in 1..Len(command.parts) |-> shlex_quote(command.parts[k])],
                     <<" ">>))
      [] command.t = "dict" ->
            LET fmt == [k \in 1..Len(command.items) |->
                            _format_lifecycle_command(command.items[k].value)]
                commands == DictCommands(command.items, fmt)
            IN IF commands # <<>> THEN Str(Join(commands, AndContinue)) ELSE NoneVal
      [] OTHER -> NoneVal

----------------------------------------------------------------------------
(* The file system and the compiler instance.                              *)
(*                                                                         *)
(* A path is the sequence of its components; os.path.join of relative      *)
(* paths is concatenation.  A manifest file holds what json.loads returns  *)
(* for its comment-stripped text, or is not valid JSON.                    *)

DEVCONTAINER_PATHS ==
    << <<".devcontainer", "devcontainer.json">>,
       <<".devcontainer.json">>,
       <<"devcontainer.json">> >>

PathVal(p) == [t |-> "path", p |-> p]

Raise(e) == [t |-> "raise", e |-> e]

JsonFile(m) == [kind |-> "json", json |-> m]

BadJsonFile == [kind |-> "bad"]

TextFile(text) == [kind |-> "text", text |-> text]

\* The parsed manifest: one field per recognised key, Absent when missing.
\* `extensions` stands for customizations.vscode.extensions.
Manifest(image, build, containerEnv, remoteEnv, onCreate, postCreate, updateContent, extensions) ==
    [t |-> "manifest", image |-> image, build |-> build,
     containerEnv |-> containerEnv, remoteEnv |-> remoteEnv,
     onCreateCommand |-> onCreate, postCreateCommand |-> postCreate,
     updateContentCommand |-> updateContent, extensions |-> extensions]

\* The manifest {}.
EmptyManifest == Manifest(Absent, Absent, Absent, Absent, Absent, Absent, Absent, Absent)

\* The "build" object.
Build(dockerfile, context) == [t |-> "build", dockerfile |-> dockerfile, context |-> context]

\* The methods under @lru_cache.
CachedMethods ==
    {"_devcontainer_path", "_devcontainer_config", "_devcontainer_dir",
     "_get_base_image", "get_build_env", "get_env", "get_assemble_scripts"}

NotCached == [t |-> "miss"]

Cached(v) == [t |-> "hit", v |-> v]

EmptyCache == [m \in CachedMethods |-> NotCached]

\* What a call leaves behind: the caches after it and what it returned
\* (a Raise record when it raised: lru_cache stores no exception).
Done(c, r) == [c |-> c, r |-> r]

Store(c, m, r) == Done([c EXCEPT ![m] = Cached(r)], r)

IsRaise(r) == r.t = "raise"

\* BuildPack.binder_path of the base class: os.path.join(self.binder_dir, path).
binder_path(bd, path) == bd \o path

\* The first of `paths` that exists, as the two for loops return it.
RECURSIVE FirstExisting(_, _)
FirstExisting(fs, paths) ==
    IF paths = <<>> THEN NoneVal
    ELSE IF Head(paths) \in DOMAIN fs THEN PathVal(Head(paths))
    ELSE FirstExisting(fs, Tail(paths))

\* As LocatePath, but looking at the repository root first.
LocatePathRootFirst(fs, bd) ==
    LET in_root == FirstExisting(fs, DEVCONTAINER_PATHS)
    IN IF in_root # NoneVal THEN in_root
       ELSE FirstExisting(fs, [k \in 1..Len(DEVCONTAINER_PATHS) |->
                                   binder_path(bd, DEVCONTAINER_PATHS[k])])

\* The body of _devcontainer_path.
LocatePath(fs, bd) ==
    LET in_binder == FirstExisting(fs, [k \in 1..Len(DEVCONTAINER_PATHS) |->
                                            binder_path(bd, DEVCONTAINER_PATHS[k])])
    IN IF in_binder # NoneVal THEN in_binder
       ELSE IF bd = <<>> THEN FirstExisting(fs, DEVCONTAINER_PATHS)
       ELSE NoneVal

_devcontainer_path(fs, bd, c) ==
    IF c["_devcontainer_path"].t = "hit" THEN Done(c, c["_devcontainer_path"].v)
    ELSE Store(c, "_devcontainer_path", LocatePath(fs, bd))

\* A _devcontainer_config without its lru_cache: every call locates nothing
\* anew but reads and parses the file again.
_devcontainer_config_reparsing(fs, bd, c) ==
    LET p == _devcontainer_path(fs, bd, c) IN
        IF p.r = NoneVal THEN Store(p.c, "_devcontainer_config", EmptyManifest)
        ELSE IF p.r.p \notin DOMAIN fs THEN Done(p.c, Raise("FileNotFoundError"))
        ELSE IF fs[p.r.p].kind # "json" THEN Done(p.c, Raise("JSONDecodeError"))
        ELSE Store(p.c, "_devcontainer_config", fs[p.r.p].json)

_devcontainer_config(fs, bd, c) ==
    IF c["_devcontainer_config"].t = "hit" THEN Done(c, c["_devcontainer_config"].v)
    ELSE LET p == _devcontainer_path(fs, bd, c) IN
        IF p.r = NoneVal THEN Store(p.c, "_devcontainer_config", EmptyManifest)
        ELSE IF p.r.p \notin DOMAIN fs THEN Done(p.c, Raise("FileNotFoundError"))
        ELSE IF fs[p.r.p].kind # "json" THEN Done(p.c, Raise("JSONDecodeError"))
        ELSE Store(p.c, "_devcontainer_config", fs[p.r.p].json)

\* os.path.dirname
DirName(p) == SubSeq(p, 1, Len(p) - 1)

_devcontainer_dir(fs, bd, c) ==
    IF c["_devcontainer_dir"].t = "hit" THEN Done(c, c["_devcontainer_dir"].v)
    ELSE LET p == _devcontainer_path(fs, bd, c) IN
        Store(p.c, "_devcontainer_dir",
              IF p.r # NoneVal THEN PathVal(DirName(p.r.p)) ELSE PathVal(<<>>))

detect(fs, bd, c) ==
    LET p == _devcontainer_path(fs, bd, c) IN Done(p.c, Bool(p.r # NoneVal))

\* "build" in config and "dockerfile" in config.get("build", {})
HasDockerfile(config) == config.build # Absent /\ config.build.dockerfile # Absent

\* The body of _get_base_image.
BaseImageOf(config, base) ==
    IF config.image # Absent THEN config.image
    ELSE IF HasDockerfile(config) THEN NoneVal
    ELSE Str(base)

_get_base_image(fs, bd, base, c) ==
    IF c["_get_base_image"].t = "hit" THEN Done(c, c["_get_base_image"].v)
    ELSE LET cfg == _devcontainer_config(fs, bd, c) IN
        IF IsRaise(cfg.r) THEN cfg
        ELSE Store(cfg.c, "_get_base_image", BaseImageOf(cfg.r, base))

_has_custom_dockerfile(fs, bd, c) ==
    LET cfg == _devcontainer_config(fs, bd, c) IN
        IF IsRaise(cfg.r) THEN cfg ELSE Done(cfg.c, Bool(HasDockerfile(cfg.r)))

\* os.path.normpath of a relative path.
RECURSIVE NormStack(_, _)
NormStack(p, acc) ==
    IF p = <<>> THEN acc
    ELSE IF Head(p) = "." THEN NormStack(Tail(p), acc)
    ELSE IF Head(p) = ".." /\ acc # <<>> /\ acc[Len(acc)] # ".."
    THEN NormStack(Tail(p), SubSeq(acc, 1, Len(acc) - 1))
    ELSE NormStack(Tail(p), Append(acc, Head(p)))

NormPath(p) == IF NormStack(p, <<>>) = <<>> THEN <<".">> ELSE NormStack(p, <<>>)

_get_dockerfile_path(fs, bd, c) ==
    LET cfg == _devcontainer_config(fs, bd, c) IN
        IF IsRaise(cfg.r) THEN cfg
        ELSE IF ~HasDockerfile(cfg.r) THEN Done(cfg.c, NoneVal)
        ELSE LET dockerfile == cfg.r.build.dockerfile.p
                 context == IF cfg.r.build.context = Absent THEN <<".">>
                            ELSE cfg.r.build.context.p
                 dir == _devcontainer_dir(fs, bd, cfg.c)
             IN IF dir.r.p # <<>>
                THEN Done(dir.c, PathVal(NormPath((dir.r.p \o context) \o dockerfile)))
                ELSE Done(dir.c, PathVal(NormPath(context \o dockerfile)))

----------------------------------------------------------------------------
(* Environment extraction.                                                 *)

\* `needle in text`
Contains(text, needle) ==
    \E k \in 0..(Len(text) - Len(needle)) : SubSeq(text, k + 1, k + Len(needle)) = needle

\* "${localEnv:" and "${localWorkspaceFolder", in the pieces the model's
\* environment values are made of.
LOCAL_ENV == <<"${localEnv", ":">>

LOCAL_WORKSPACE == <<"${localWorkspaceFolder">>

\* As UsableValue, but only looking for ${localEnv: references.
UsableValueLocalEnvOnly(value) == ~Contains(value, LOCAL_ENV)

\* "${localEnv:" not in value and "${localWorkspaceFolder" not in value
UsableValue(value) == ~Contains(value, LOCAL_ENV) /\ ~Contains(value, LOCAL_WORKSPACE)

\* config.get(key, {}).items(): the entries in insertion order.
Items(v) == IF v = Absent THEN <<>> ELSE v.items

\* The for loop of get_build_env and get_env: the (key, value) pairs kept.
RECURSIVE KeptPairs(_)
KeptPairs(items) ==
    IF items = <<>> THEN <<>>
    ELSE (IF UsableValue(Head(items).value.s)
          THEN << <<Head(items).name, Head(items).value.s>> >>
          ELSE <<>>) \o KeptPairs(Tail(items))

Pairs(items) == [t |-> "pairs", items |-> items]

\* BuildPack.get_build_env and BuildPack.get_env of the base class.
BaseEnv == <<>>

get_build_env(fs, bd, c) ==
    IF c["get_build_env"].t = "hit" THEN Done(c, c["get_build_env"].v)
    ELSE LET cfg == _devcontainer_config(fs, bd, c) IN
        IF IsRaise(cfg.r) THEN cfg
        ELSE Store(cfg.c, "get_build_env", Pairs(BaseEnv \o KeptPairs(Items(cfg.r.containerEnv))))

get_env(fs, bd, c) ==
    IF c["get_env"].t = "hit" THEN Done(c, c["get_env"].v)
    ELSE LET cfg == _devcontainer_config(fs, bd, c) IN
        IF IsRaise(cfg.r) THEN cfg
        ELSE Store(cfg.c, "get_env", Pairs(BaseEnv \o KeptPairs(Items(cfg.r.remoteEnv))))

\* f"ENV {key}={value}\n"
EnvLine(key, value) == (((<<"ENV ">> \o key) \o <<"=">>) \o value) \o <<NEWLINE>>

\* env_lines of render_standalone.
RECURSIVE EnvLines(_)
EnvLines(items) ==
    IF items = <<>> THEN <<>>
    ELSE (IF UsableValue(Head(items).value.s)
          THEN EnvLine(Head(items).name, Head(items).value.s)
          ELSE <<>>) \o EnvLines(Tail(items))

----------------------------------------------------------------------------
(* Lifecycle scripts of the repo2docker pipeline: get_assemble_scripts.    *)

Script(user, script) == [user |-> user, script |-> script]

NB_USER_REF == <<"${NB_USER}">>

PipInstallScript ==
    <<"\n",
      "            python3 -m pip install --no-cache-dir \\\n",
      "                jupyterlab \\\n",
      "                notebook\n",
      "            ">>

\* `if command: cmd = format(command); if cmd: <emit cmd>`: the command to
\* emit for a lifecycle field, or None.
LifecycleCmd(command) ==
    IF Truthy(command) /\ Truthy(_format_lifecycle_command(command))
    THEN _format_lifecycle_command(command)
    ELSE NoneVal

\* BuildPack.get_assemble_scripts of the base class.
BaseAssembleScripts == <<>>

AssembleScripts(config) ==
    LET on_create == LifecycleCmd(Get(config.onCreateCommand))
        post_create == LifecycleCmd(Get(config.postCreateCommand))
    IN ((BaseAssembleScripts \o <<Script(NB_USER_REF, PipInstallScript)>>)
        \o (IF on_create # NoneVal THEN <<Script(NB_USER_REF, on_create.s)>> ELSE <<>>))
        \o (IF post_create # NoneVal THEN <<Script(NB_USER_REF, post_create.s)>> ELSE <<>>)

get_assemble_scripts(fs, bd, c) ==
    IF c["get_assemble_scripts"].t = "hit" THEN Done(c, c["get_assemble_scripts"].v)
    ELSE LET cfg == _devcontainer_config(fs, bd, c) IN
        IF IsRaise(cfg.r) THEN cfg
        ELSE Store(cfg.c, "get_assemble_scripts",
                   [t |-> "scripts", items |-> AssembleScripts(cfg.r)])

----------------------------------------------------------------------------
(* The extension mapper.                                                   *)

PROPRIETARY_EXTENSIONS ==
    {<<"ms-python.vscode-pylance">>, <<"ms-vscode.cpptools">>,
     <<"ms-dotnettools.csharp">>, <<"ms-vscode-remote.remote-ssh">>,
     <<"ms-vscode-remote.remote-containers">>, <<"ms-vscode-remote.remote-wsl">>,
     <<"github.copilot">>, <<"github.copilot-chat">>}

\* The remap table: the ids it maps, and what it maps them to.  It is empty.
EXTENSION_MAPPINGS_KEYS == {}

EXTENSION_MAPPINGS(extension_id) == extension_id

\* _map_extension_to_openvsx: mapped_id and warning, None for neither.
_map_extension_to_openvsx(extension_id) ==
    IF extension_id \in PROPRIETARY_EXTENSIONS
    THEN [mapped_id |-> NoneVal,
          warning |-> Str((<<"Extension '">> \o extension_id)
                          \o <<"' is proprietary and not available on Open VSX">>)]
    ELSE IF extension_id \in EXTENSION_MAPPINGS_KEYS
    THEN [mapped_id |-> Str(EXTENSION_MAPPINGS(extension_id)),
          warning |-> Str((((<<"Extension '">> \o extension_id) \o <<"' mapped to '">>)
                           \o EXTENSION_MAPPINGS(extension_id)) \o <<"' for Open VSX">>)]
    ELSE [mapped_id |-> Str(extension_id), warning |-> NoneVal]

\* config.get("customizations", {}).get("vscode", {}).get("extensions", [])
_get_vscode_extensions(config) ==
    IF config.extensions = Absent THEN <<>> ELSE config.extensions.parts

\* The for loop of _generate_extension_install_commands.
RECURSIVE ValidExtensions(_)
ValidExtensions(extensions) ==
    IF extensions = <<>> THEN <<>>
    ELSE (IF Truthy(_map_extension_to_openvsx(Head(extensions)).mapped_id)
          THEN <<_map_extension_to_openvsx(Head(extensions)).mapped_id.s>>
          ELSE <<>>) \o ValidExtensions(Tail(extensions))

RECURSIVE ExtensionWarnings(_)
ExtensionWarnings(extensions) ==
    IF extensions = <<>> THEN <<>>
    ELSE (IF Truthy(_map_extension_to_openvsx(Head(extensions)).warning)
          THEN <<_map_extension_to_openvsx(Head(extensions)).warning.s>>
          ELSE <<>>) \o ExtensionWarnings(Tail(extensions))

\* _generate_extension_install_commands: the lines before the install commands.
ExtensionHeader ==
    <<"\n",
      "# Install VS Code extensions from Open VSX registry\n",
      "# Note: Extensions are sourced from https://open-vsx.org (not Microsoft marketplace)\n",
      "RUN ">>

\* " && \\\n    "
InstallSeparator == <<" && \\\n    ">>

_generate_extension_install_commands(config) ==
    LET extensions == _get_vscode_extensions(config)
        valid == ValidExtensions(extensions)
    IN IF extensions = <<>> THEN [cmds |-> <<>>, warnings |-> <<>>]
       ELSE IF valid = <<>> THEN [cmds |-> <<>>, warnings |-> ExtensionWarnings(extensions)]
       ELSE [cmds |-> (ExtensionHeader
                       \o Join([k \in 1..Len(valid) |->
                                    <<"openvscode-server --install-extension ">> \o valid[k]],
                               InstallSeparator))
                      \o <<NEWLINE>>,
             warnings |-> ExtensionWarnings(extensions)]

----------------------------------------------------------------------------
(* The script renderer.                                                    *)

\* build_args: NB_USER and NB_UID, Absent when not given.
BuildArgs(nb_user, nb_uid) == [NB_USER |-> nb_user, NB_UID |-> nb_uid]

\* build_args.get(key, default)
ArgOr(v, default) == IF v = Absent THEN default ELSE v.s

\* render_standalone: the template from the line after FROM to the user set-up.
StandaloneProlog ==
    <<"\n",
      "# =============================================================================\n",
      "# NOTE: This Dockerfile assumes a Debian/Ubuntu-based image with apt-get.\n",
      "# Alpine (apk), RHEL (yum/dnf), or other distros will require modifications.\n",
      "# =============================================================================\n",
      "\n",
      "# Avoid prompts from apt\n",
      "ENV DEBIAN_FRONTEND=noninteractive\n",
      "\n",
      "# Set up locales properly\n",
      "RUN apt-get -qq update && \\\n",
      "    apt-get -qq install --yes --no-install-recommends locales > /dev/null && \\\n",
      "    apt-get -qq purge && \\\n",
      "    apt-get -qq clean && \\\n",
      "    rm -rf /var/lib/apt/lists/*\n",
      "\n",
      "RUN echo \"en_US.UTF-8 UTF-8\" > /etc/locale.gen && \\\n",
      "    locale-gen\n",
      "\n",
      "ENV LC_ALL=en_US.UTF-8 \\\n",
      "    LANG=en_US.UTF-8 \\\n",
      "    LANGUAGE=en_US.UTF-8\n",
      "\n",
      "# Use bash as default shell\n",
      "ENV SHELL=/bin/bash\n",
      "\n",
      "# Set up user - MUST be UID 1000 for JupyterHub compatibility\n">>

\* render_standalone: the template from the user set-up to the manifest ENV lines.
StandaloneSetup ==
    <<"ARG NB_UID=1000\n",
      "ENV USER=${NB_USER} \\\n",
      "    HOME=/home/${NB_USER} \\\n",
      "    NB_USER=${NB_USER} \\\n",
      "    NB_UID=1000\n",
      "\n",
      "RUN groupadd --gid 1000 ${NB_USER} && \\\n",
      "    useradd --comment \"Default user\" --create-home --gid 1000 \\\n",
      "            --no-log-init --shell /bin/bash --uid 1000 ${NB_USER}\n",
      "\n",
      "# Install base packages\n",
      "RUN apt-get -qq update && \\\n",
      "    apt-get -qq install --yes --no-install-recommends \\\n",
      "        ca-certificates \\\n",
      "        curl \\\n",
      "        git \\\n",
      "        less \\\n",
      "        unzip \\\n",
      "        wget \\\n",
      "        python3 \\\n",
      "        python3-pip \\\n",
      "        python3-venv \\\n",
      "        > /dev/null && \\\n",
      "    apt-get -qq purge && \\\n",
      "    apt-get -qq clean && \\\n",
      "    rm -rf /var/lib/apt/lists/*\n",
      "\n",
      "# Ensure pip scripts are on PATH (required for jupyterhub-singleuser)\n",
      "ENV PATH=${HOME}/.local/bin:$PATH\n",
      "\n",
      "# Create Python virtual environment in /opt (survives JupyterHub bind-mount of /home)\n",
      "# JupyterHub bind-mounts /home/jovyan, wiping ~/.local/bin - so we install to /opt\n",
      "ENV VIRTUAL_ENV=/opt/venv\n",
      "RUN python3 -m venv $VIRTUAL_ENV && \\\n",
      "    chown -R 1000:1000 $VIRTUAL_ENV\n",
      "ENV PATH=$VIRTUAL_ENV/bin:$PATH\n",
      "\n",
      "EXPOSE 8888\n",
      "\n",
      "# Install openvscode-server for VS Code in browser (must run as root to write to /opt)\n",
      "# Using openvscode-server (Gitpod) for better upstream VS Code alignment\n",
      "# Note: We query GitHub API to get correct download URL (filename includes version)\n",
      "RUN OVSCODE_VERSION=$(curl -sL https://api.github.com/repos/gitpod-io/openvscode-server/releases/latest | grep '\"tag_name\"' | sed -E 's/.*\"([^\"]+)\".*/\\1/') && \\\n",
      "    curl -fsSL \"https://github.com/gitpod-io/openvscode-server/releases/download/${OVSCODE_VERSION}/${OVSCODE_VERSION}-linux-x64.tar.gz\" | \\\n",
      "    tar -xz -C /opt && \\\n",
      "    mv /opt/openvscode-server-* /opt/openvscode-server && \\\n",
      "    chown -R 1000:1000 /opt/openvscode-server\n",
      "\n",
      "ENV PATH=/opt/openvscode-server/bin:$PATH\n",
      "\n",
      "# Configure openvscode-server to use Open VSX registry (not Microsoft marketplace)\n",
      "ENV OPENVSCODE_SERVER_EXTENSIONS_DIR=/opt/openvscode-server/extensions\n",
      "\n",
      "# Environment variables from devcontainer.json\n">>

\* render_standalone: the template from the working directory to the pip install step.
StandaloneInstall ==
    <<"# Set working directory\n",
      "ARG REPO_DIR=${HOME}\n",
      "ENV REPO_DIR=${REPO_DIR}\n",
      "WORKDIR ${REPO_DIR}\n",
      "\n",
      "# Copy repository contents\n",
      "COPY --chown=1000:1000 . ${REPO_DIR}/\n",
      "\n",
      "# Switch to user for pip installs and extensions\n",
      "USER ${NB_USER}\n",
      "\n",
      "# Install JupyterHub requirements to /opt/venv (not ~/.local which gets bind-mounted)\n",
      "# jupyterhub provides jupyterhub-singleuser which is REQUIRED for JupyterHub\n",
      "# jupyter-vscode-proxy enables VS Code (openvscode-server) in JupyterHub\n",
      "RUN pip install --no-cache-dir \\\n",
      "    jupyterhub \\\n",
      "    jupyterlab \\\n",
      "    notebook \\\n",
      "    jupyter-vscode-proxy\n">>

\* render_standalone: the template between the extension block and the lifecycle RUNs.
StandaloneLifecycleHeader ==
    <<"\n",
      "\n",
      "# Run lifecycle commands from devcontainer.json\n">>

\* render_standalone: the template after the lifecycle RUNs.
StandaloneEpilog ==
    <<"\n",
      "# JupyterHub will provide the start command (jupyterhub-singleuser)\n",
      "# This CMD is a fallback for standalone usage\n",
      "CMD [\"jupyterhub-singleuser\", \"--ip=0.0.0.0\", \"--port=8888\"]\n">>

\* _render_with_custom_dockerfile: the appended block up to the user arguments.
AdditionsProlog ==
    <<"\n",
      "\n",
      "# --- repo2docker additions for JupyterHub compatibility ---\n",
      "\n",
      "# Set up user if not already set\n">>

\* _render_with_custom_dockerfile: the appended block after the user arguments.
AdditionsBody ==
    <<"ENV USER=${NB_USER} \\\n",
      "    HOME=/home/${NB_USER}\n",
      "\n",
      "# Create user if it doesn't exist\n",
      "RUN if ! id -u ${NB_USER} > /dev/null 2>&1; then \\\n",
      "        groupadd --gid ${NB_UID} ${NB_USER} && \\\n",
      "        useradd --comment \"Default user\" --create-home --gid ${NB_UID} \\\n",
      "                --no-log-init --shell /bin/bash --uid ${NB_UID} ${NB_USER}; \\\n",
      "    fi\n",
      "\n",
      "# Ensure Python and JupyterLab are installed\n",
      "RUN apt-get -qq update && \\\n",
      "    apt-get -qq install --yes --no-install-recommends \\\n",
      "        python3 python3-pip python3-venv > /dev/null && \\\n",
      "    apt-get -qq purge && apt-get -qq clean && \\\n",
      "    rm -rf /var/lib/apt/lists/*\n",
      "\n",
      "USER ${NB_USER}\n",
      "\n",
      "RUN python3 -m pip install --no-cache-dir jupyterlab notebook\n",
      "\n",
      "# Set working directory\n",
      "ARG REPO_DIR=${HOME}\n",
      "ENV REPO_DIR=${REPO_DIR}\n",
      "WORKDIR ${REPO_DIR}\n",
      "\n",
      "EXPOSE 8888\n",
      "\n",
      "CMD [\"jupyter\", \"notebook\", \"--ip\", \"0.0.0.0\"]\n">>

\* f"RUN {cmd}\n\n" for a lifecycle field that yields a command.
StandaloneRun(command) ==
    IF LifecycleCmd(command) # NoneVal
    THEN (<<"RUN ">> \o LifecycleCmd(command).s) \o <<NEWLINE, NEWLINE>>
    ELSE <<>>

\* A render_standalone whose copy step is left out when the manifest has a
\* remoteEnv.
StandaloneScriptCopyByManifest(config, base, nb_user) ==
    Concat(<< <<"FROM ">>, base, <<NEWLINE>>,
              StandaloneProlog,
              <<"ARG NB_USER=">>, nb_user, <<NEWLINE>>,
              StandaloneSetup,
              EnvLines(Items(config.containerEnv)), <<NEWLINE>>,
              SelectSeq(StandaloneInstall,
                        LAMBDA line : \/ config.remoteEnv = Absent
                                      \/ line # "COPY --chown=1000:1000 . ${REPO_DIR}/\n"),
              _generate_extension_install_commands(config).cmds,
              StandaloneLifecycleHeader,
              StandaloneRun(Get(config.onCreateCommand)),
              StandaloneRun(Get(config.postCreateCommand)),
              StandaloneEpilog >>)

\* A render_standalone that runs postCreateCommand before onCreateCommand.
StandaloneScriptPostCreateFirst(config, base, nb_user) ==
    Concat(<< <<"FROM ">>, base, <<NEWLINE>>,
              StandaloneProlog,
              <<"ARG NB_USER=">>, nb_user, <<NEWLINE>>,
              StandaloneSetup,
              EnvLines(Items(config.containerEnv)), <<NEWLINE>>,
              StandaloneInstall,
              _generate_extension_install_commands(config).cmds,
              StandaloneLifecycleHeader,
              StandaloneRun(Get(config.postCreateCommand)),
              StandaloneRun(Get(config.onCreateCommand)),
              StandaloneEpilog >>)

\* The f-string of render_standalone.
StandaloneScript(config, base, nb_user) ==
    Concat(<< <<"FROM ">>, base, <<NEWLINE>>,
              StandaloneProlog,
              <<"ARG NB_USER=">>, nb_user, <<NEWLINE>>,
              StandaloneSetup,
              EnvLines(Items(config.containerEnv)), <<NEWLINE>>,
              StandaloneInstall,
              _generate_extension_install_commands(config).cmds,
              StandaloneLifecycleHeader,
              StandaloneRun(Get(config.onCreateCommand)),
              StandaloneRun(Get(config.postCreateCommand)),
              StandaloneEpilog >>)

render_standalone(fs, bd, base, c, build_args) ==
    LET cfg == _devcontainer_config(fs, bd, c) IN
        IF IsRaise(cfg.r) THEN cfg
        ELSE LET img == _get_base_image(fs, bd, base, cfg.c)
                 from == IF Truthy(img.r) THEN img.r.s ELSE base
             IN Done(img.c, Str(StandaloneScript(cfg.r, from,
                                                 ArgOr(build_args.NB_USER, <<"jovyan">>))))

\* f"\nRUN {cmd}\n" for a lifecycle field that yields a command.
TrailingRun(command) ==
    IF LifecycleCmd(command) # NoneVal
    THEN (<<NEWLINE, "RUN ">> \o LifecycleCmd(command).s) \o <<NEWLINE>>
    ELSE <<>>

CR == "\r"

\* f.read() of a file opened in text mode (open(path), universal newlines):
\* a carriage return, with the newline after it when there is one, is read
\* as one newline.
RECURSIVE ReadText(_)
ReadText(chars) ==
    IF chars = <<>> THEN <<>>
    ELSE IF Head(chars) = CR
    THEN <<NEWLINE>> \o ReadText(IF Len(chars) > 1 /\ chars[2] = NEWLINE
                                 THEN Tail(Tail(chars)) ELSE Tail(chars))
    ELSE <<Head(chars)>> \o ReadText(Tail(chars))

\* The f-string of _render_with_custom_dockerfile and the RUNs added to it.
ExtendedScript(config, user_dockerfile, nb_user, nb_uid) ==
    Concat(<< user_dockerfile,
              AdditionsProlog,
              <<"ARG NB_USER=">>, nb_user, <<NEWLINE>>,
              <<"ARG NB_UID=">>, nb_uid, <<NEWLINE>>,
              AdditionsBody,
              TrailingRun(Get(config.onCreateCommand)),
              TrailingRun(Get(config.postCreateCommand)) >>)

_render_with_custom_dockerfile(fs, bd, c, build_args) ==
    LET path == _get_dockerfile_path(fs, bd, c) IN
        IF IsRaise(path.r) THEN path
        ELSE LET cfg == _devcontainer_config(fs, bd, path.c) IN
            IF path.r = NoneVal THEN Done(cfg.c, Raise("TypeError"))
            ELSE IF path.r.p \notin DOMAIN fs THEN Done(cfg.c, Raise("FileNotFoundError"))
            ELSE Done(cfg.c, Str(ExtendedScript(cfg.r, ReadText(fs[path.r.p].text),
                                                ArgOr(build_args.NB_USER, <<"jovyan">>),
                                                ArgOr(build_args.NB_UID, <<"1000">>))))

\* The pipeline's lines for a list of (key, value) pairs.
RECURSIVE PairLines(_)
PairLines(pairs) ==
    IF pairs = <<>> THEN <<>>
    ELSE EnvLine(Head(pairs)[1], Head(pairs)[2]) \o PairLines(Tail(pairs))

\* The pipeline's lines for a list of (user, script) pairs.
RECURSIVE ScriptLines(_)
ScriptLines(scripts) ==
    IF scripts = <<>> THEN <<>>
    ELSE (((((<<"USER ">> \o Head(scripts).user) \o <<NEWLINE>>)
            \o <<"RUN ">>) \o Head(scripts).script) \o <<NEWLINE>>)
         \o ScriptLines(Tail(scripts))

\* BuildPack.render of the base class, the generic pipeline: it starts the
\* script FROM self.base_image and fills it from the accumulation hooks.
BaseRender(fs, bd, base, c) ==
    LET benv == get_build_env(fs, bd, c) IN
        IF IsRaise(benv.r) THEN benv
        ELSE LET scripts == get_assemble_scripts(fs, bd, benv.c)
                 env == get_env(fs, bd, scripts.c)
             IN Done(env.c, Str(Concat(<< <<"FROM ">>, base, <<NEWLINE>>,
                                          PairLines(benv.r.items),
                                          ScriptLines(scripts.r.items),
                                          PairLines(env.r.items) >>)))

\* What a render call leaves: the caches, the result and self.base_image.
Rendered(d, base) == [c |-> d.c, r |-> d.r, base_image |-> base]

render(fs, bd, base, c, build_args) ==
    LET custom == _has_custom_dockerfile(fs, bd, c) IN
        IF IsRaise(custom.r) THEN Rendered(custom, base)
        ELSE IF custom.r.b
        THEN Rendered(_render_with_custom_dockerfile(fs, bd, custom.c, build_args), base)
        ELSE LET img == _get_base_image(fs, bd, base, custom.c)
                 new_base == IF Truthy(img.r) THEN img.r.s ELSE base
             IN Rendered(BaseRender(fs, bd, new_base, img.c), new_base)

----------------------------------------------------------------------------
(* Operations on the instance, shared by the specifications.              *)

DEFAULT_IMAGE == <<"docker.io/library/buildpack-deps:jammy">>

\* DevContainerBuildPack(base_image), before any call.
NewInstance(b) ==
    /\ base_image = b
    /\ ctor_base_image = b
    /\ cache = EmptyCache
    /\ op = ""
    /\ arg = NoneVal
    /\ ret = NoneVal
    /\ computed = {}
    /\ first_parse = NoneVal

\* A call `name(a)` that left d: its result and the caches it filled.
Call(name, a, d) ==
    /\ op' = name
    /\ arg' = a
    /\ ret' = d.r
    /\ cache' = d.c
    /\ computed' = {m \in CachedMethods : cache[m].t = "miss" /\ d.c[m].t = "hit"}
    /\ first_parse' = IF first_parse # NoneVal THEN first_parse
                      ELSE IF d.c["_devcontainer_config"].t = "hit"
                      THEN d.c["_devcontainer_config"].v
                      ELSE IF IsRaise(d.r) THEN d.r
                      ELSE NoneVal
    /\ UNCHANGED <<content, files, binder_dir, ctor_base_image>>

\* No call has been made on the instance yet.
FirstCall == op = ""

\* A step `name` that is no call of a method: it returns nothing.  A
\* cache_clear() of the location or of the parse starts the history anew.
Environment(name) ==
    /\ op' = name
    /\ arg' = NoneVal
    /\ ret' = NoneVal
    /\ computed' = {}
    /\ first_parse' =
           IF /\ name = "cache_clear"
              /\ \E m \in {"_devcontainer_path", "_devcontainer_config"} : cache'[m] # cache[m]
           THEN NoneVal
           ELSE first_parse

CallDetect ==
    /\ Call("detect", NoneVal, detect(files, binder_dir, cache))
    /\ UNCHANGED base_image

CallDevcontainerPath ==
    /\ Call("_devcontainer_path", NoneVal, _devcontainer_path(files, binder_dir, cache))
    /\ UNCHANGED base_image

CallDevcontainerConfig ==
    /\ Call("_devcontainer_config", NoneVal, _devcontainer_config(files, binder_dir, cache))
    /\ UNCHANGED base_image

CallGetBaseImage ==
    /\ Call("_get_base_image", NoneVal, _get_base_image(files, binder_dir, base_image, cache))
    /\ UNCHANGED base_image

CallGetBuildEnv ==
    /\ Call("get_build_env", NoneVal, get_build_env(files, binder_dir, cache))
    /\ UNCHANGED base_image

CallGetEnv ==
    /\ Call("get_env", NoneVal, get_env(files, binder_dir, cache))
    /\ UNCHANGED base_image

\* bp._format_lifecycle_command(config.get(field)), as the tests call it.
CallFormatLifecycle(field) ==
    LET cfg == _devcontainer_config(files, binder_dir, cache) IN
        /\ ~IsRaise(cfg.r)
        /\ Call("_format_lifecycle_command", Get(cfg.r[field]),
                Done(cfg.c, _format_lifecycle_command(Get(cfg.r[field]))))
        /\ UNCHANGED base_image

CallRenderStandalone(build_args) ==
    /\ Call("render_standalone", build_args,
            render_standalone(files, binder_dir, base_image, cache, build_args))
    /\ UNCHANGED base_image

CallRender(build_args) ==
    LET d == render(files, binder_dir, base_image, cache, build_args) IN
        /\ Call("render", build_args, d)
        /\ base_image' = d.base_image

NoBuildArgs == BuildArgs(Absent, Absent)

----------------------------------------------------------------------------
(* Specification SpecStrip: the lexer applied to every short text.         *)

\* The characters that drive the lexer, and one ordinary character.
LexChars == {QUOTE, BACKSLASH, "/", "*", NEWLINE, "a"}

InitStrip ==
    /\ content \in SeqsUpTo(LexChars, MaxLen)
    /\ files = <<>>
    /\ binder_dir = <<>>
    /\ NewInstance(DEFAULT_IMAGE)

CallStrip ==
    /\ FirstCall
    /\ op' = "_strip_jsonc_comments"
    /\ arg' = Str(content)
    /\ ret' = Str(_strip_jsonc_comments(content))
    /\ UNCHANGED <<content, files, binder_dir, base_image, ctor_base_image, cache, computed,
                   first_parse>>

NextStrip == CallStrip

SpecStrip == InitStrip /\ [][NextStrip]_vars

----------------------------------------------------------------------------
(* Specification SpecCmd: one manifest whose onCreateCommand or            *)
(* postCreateCommand ranges over the command shapes; it is normalized and  *)
(* rendered in both modes.                                                 *)

\* A word character, whitespace, two shell metacharacters and the quote.
TokChars == {"a", " ", "&", "$", APOSTROPHE}

Tokens == SeqsUpTo(TokChars, MaxTokLen)

\* Values that are none of string, sequence or mapping.
OtherCmds == {NoneVal, Num(0), Num(5), Bool(TRUE), Bool(FALSE)}

\* Lists of no, one or two tokens (the second of at most one character).
ListCmds ==
    {List(<<>>)} \cup {List(<<a>>) : a \in Tokens}
                 \cup {List(<<a, b>>) : a \in Tokens, b \in SeqsUpTo(TokChars, 1)}

DictNames == {<<"x">>, <<"y">>}

\* The mappings of no, one or two entries (distinct names) over `values`.
DictsOver(values) ==
    {Dict(<<>>)}
        \cup {Dict(<<Entry(n, v)>>) : n \in DictNames, v \in values}
        \cup {Dict(<<Entry(n[1], v), Entry(n[2], w)>>) :
                  n \in {<< <<"x">>, <<"y">> >>, << <<"y">>, <<"x">> >>},
                  v \in values, w \in values}

\* The values of a mapping's entries.
EntryCmds ==
    OtherCmds \cup {Str(a) : a \in SeqsUpTo(TokChars, 1)}
              \cup {List(<<>>), List(<< <<>> >>), List(<< <<"a">> >>), List(<< <<"a">>, <<" ">> >>)}

\* The values of the entries of a mapping nested in a mapping.
InnerCmds == {NoneVal, Str(<<>>), Str(<<"a">>)}

Commands ==
    OtherCmds \cup {Str(a) : a \in Tokens} \cup ListCmds
              \cup DictsOver(EntryCmds)
              \cup DictsOver(InnerCmds \cup DictsOver(InnerCmds))

MANIFEST_PATH == <<"devcontainer.json">>

DOCKERFILE_PATH == <<"Dockerfile">>

USER_DOCKERFILE == <<"FROM ubuntu:22.04\n", "RUN true\n">>

\* The repository of a manifest at devcontainer.json, with the Dockerfile it
\* names when it names one.
RepoOf(m) ==
    IF HasDockerfile(m)
    THEN (MANIFEST_PATH :> JsonFile(m)) @@ (DOCKERFILE_PATH :> TextFile(USER_DOCKERFILE))
    ELSE (MANIFEST_PATH :> JsonFile(m))

OTHER_COMMAND == Str(<<"b">>)

InitCmd ==
    /\ content = <<>>
    /\ binder_dir = <<>>
    /\ \E command \in Commands, first \in BOOLEAN,
          build \in {Absent, Build(PathVal(DOCKERFILE_PATH), Absent)} :
          files = RepoOf(Manifest(Absent, build, Absent, Absent,
                                  IF first THEN command ELSE OTHER_COMMAND,
                                  IF first THEN Absent ELSE command,
                                  Absent, Absent))
    /\ NewInstance(DEFAULT_IMAGE)

NextCmd ==
    \/ FirstCall /\ CallFormatLifecycle("onCreateCommand")
    \/ FirstCall /\ CallFormatLifecycle("postCreateCommand")
    \/ FirstCall /\ CallRenderStandalone(NoBuildArgs)
    \/ FirstCall /\ CallRender(NoBuildArgs)

SpecCmd == InitCmd /\ [][NextCmd]_vars

----------------------------------------------------------------------------
(* Specification SpecEnv: one manifest whose containerEnv or remoteEnv     *)
(* ranges over the small environment maps; it is extracted and rendered.   *)

\* The pieces environment values are made of: the two reference openers,
\* the colon that completes ${localEnv: , an equals sign and a letter.
EnvAtoms == {"${localEnv", ":", "${localWorkspaceFolder", "=", "v"}

EnvValues == SeqsUpTo(EnvAtoms, MaxValLen)

\* The maps {}, {"A": v} and {"A": v, "B": w}, in insertion order.
EnvMaps ==
    {Dict(<<>>)}
        \cup {Dict(<<Entry(<<"A">>, Str(v))>>) : v \in EnvValues}
        \cup {Dict(<<Entry(<<"A">>, Str(v)), Entry(<<"B">>, Str(w))>>) :
                  v \in EnvValues, w \in EnvValues}

OTHER_ENV == Dict(<<Entry(<<"Z">>, Str(<<"v">>))>>)

InitEnv ==
    /\ content = <<>>
    /\ binder_dir = <<>>
    /\ \E env \in EnvMaps, container \in BOOLEAN :
          files = RepoOf(Manifest(Absent, Absent,
                                  IF container THEN env ELSE OTHER_ENV,
                                  IF container THEN Absent ELSE env,
                                  Absent, Absent, Absent, Absent))
    /\ NewInstance(DEFAULT_IMAGE)

NextEnv ==
    \/ FirstCall /\ CallGetBuildEnv
    \/ FirstCall /\ CallGetEnv
    \/ FirstCall /\ CallRenderStandalone(NoBuildArgs)

SpecEnv == InitEnv /\ [][NextEnv]_vars

----------------------------------------------------------------------------
(* Specification SpecLocate: manifests come and go at the six candidate    *)
(* places while one instance locates them, with and without a binder       *)
(* directory in use.                                                       *)

BINDER == <<"binder">>

\* The candidate names at the repository root and under binder/.
RootCandidates == {DEVCONTAINER_PATHS[k] : k \in 1..Len(DEVCONTAINER_PATHS)}

BinderCandidates == {BINDER \o DEVCONTAINER_PATHS[k] : k \in 1..Len(DEVCONTAINER_PATHS)}

\* The files at the places of `paths`, each the manifest {}.
FilesAt(paths) == [p \in paths |-> JsonFile(EmptyManifest)]

\* binder_dir of the base class is "binder" when that directory exists, so a
\* repository with a file under binder/ has it in use.
InitLocate ==
    /\ content = <<>>
    /\ \/ /\ binder_dir = <<>>
          /\ \E paths \in SUBSET RootCandidates : files = FilesAt(paths)
       \/ /\ binder_dir = BINDER
          /\ \E paths \in SUBSET (RootCandidates \cup BinderCandidates) : files = FilesAt(paths)
    /\ NewInstance(DEFAULT_IMAGE)

\* A manifest is created at a candidate place.
CreateManifest ==
    /\ \E p \in (IF binder_dir = <<>> THEN RootCandidates
                 ELSE RootCandidates \cup BinderCandidates) \ DOMAIN files :
          files' = (p :> JsonFile(EmptyManifest)) @@ files
    /\ Environment("create")
    /\ UNCHANGED <<content, binder_dir, base_image, ctor_base_image, cache>>

\* A file is removed.
RemoveFile ==
    /\ \E p \in DOMAIN files : files' = [q \in DOMAIN files \ {p} |-> files[q]]
    /\ Environment("remove")
    /\ UNCHANGED <<content, binder_dir, base_image, ctor_base_image, cache>>

\* The methods whose cache_clear() is called: those that locate and parse the
\* manifest and resolve the base image.
ClearedMethods == {"_devcontainer_path", "_devcontainer_config", "_get_base_image"}

\* method.cache_clear()
CacheClear ==
    /\ \E m \in ClearedMethods :
          /\ cache[m].t = "hit"
          /\ cache' = [cache EXCEPT ![m] = NotCached]
    /\ Environment("cache_clear")
    /\ UNCHANGED <<content, files, binder_dir, base_image, ctor_base_image>>

NextLocate ==
    \/ CallDetect
    \/ CallDevcontainerPath
    \/ CreateManifest
    \/ RemoveFile
    \/ CacheClear

SpecLocate == InitLocate /\ [][NextLocate]_vars

----------------------------------------------------------------------------
(* Specification Spec: one repository with a manifest at devcontainer.json *)
(* and a Dockerfile, both rewritten and removed while instances are        *)
(* constructed, queried, rendered and their caches cleared.                *)

IMAGE == <<"python:3.11">>

\* {}, {"image": ...}, {"build": {"dockerfile": "Dockerfile"}} and both.
MainManifests ==
    {Manifest(image, build, Absent, Absent, Absent, Absent, Absent, Absent) :
        image \in {Absent, Str(IMAGE)},
        build \in {Absent, Build(PathVal(DOCKERFILE_PATH), Absent)}}

Init ==
    /\ content = <<>>
    /\ binder_dir = <<>>
    /\ \E m \in MainManifests : files = RepoOf(m)
    /\ NewInstance(DEFAULT_IMAGE)

\* devcontainer.json is written (created or replaced).
WriteManifest ==
    /\ \E m \in MainManifests :
          files' = (MANIFEST_PATH :> JsonFile(m))
                       @@ [q \in DOMAIN files \ {MANIFEST_PATH} |-> files[q]]
    /\ Environment("write")
    /\ UNCHANGED <<content, binder_dir, base_image, ctor_base_image, cache>>

\* The Dockerfile is written.
WriteDockerfile ==
    /\ DOCKERFILE_PATH \notin DOMAIN files
    /\ files' = (DOCKERFILE_PATH :> TextFile(USER_DOCKERFILE)) @@ files
    /\ Environment("write")
    /\ UNCHANGED <<content, binder_dir, base_image, ctor_base_image, cache>>

\* DevContainerBuildPack(DEFAULT_IMAGE): a fresh instance replaces the one
\* in hand.
Construct ==
    /\ op # ""
    /\ base_image' = DEFAULT_IMAGE
    /\ ctor_base_image' = DEFAULT_IMAGE
    /\ cache' = EmptyCache
    /\ op' = ""
    /\ arg' = NoneVal
    /\ ret' = NoneVal
    /\ computed' = {}
    /\ first_parse' = NoneVal
    /\ UNCHANGED <<content, files, binder_dir>>

Next ==
    \/ CallDetect
    \/ CallDevcontainerPath
    \/ CallDevcontainerConfig
    \/ CallGetBaseImage
    \/ CallRenderStandalone(NoBuildArgs)
    \/ CallRender(NoBuildArgs)
    \/ WriteManifest
    \/ WriteDockerfile
    \/ RemoveFile
    \/ CacheClear
    \/ Construct

Spec == Init /\ [][Next]_vars

----------------------------------------------------------------------------
(* Specification SpecDockerfile: a manifest naming a Dockerfile whose text *)
(* ranges over the short texts; it is rendered with and without build      *)
(* arguments.                                                              *)

\* A letter, the comment sign and the two line-ending characters.
DockerChars == {"F", "#", CR, NEWLINE}

\* The build arguments a caller passes: none, NB_USER, NB_UID or both.
BuildArgChoices ==
    {BuildArgs(user, uid) : user \in {Absent, Str(<<"rstudio">>)},
                            uid \in {Absent, Str(<<"1001">>)}}

InitDockerfile ==
    /\ content = <<>>
    /\ binder_dir = <<>>
    /\ \E text \in SeqsUpTo(DockerChars, MaxDockerLen),
          image \in {Absent, Str(<<"python:3.11">>)},
          on_create \in {Absent, Str(<<"a">>)},
          post_create \in {Absent, Str(<<"b">>)} :
          files = (MANIFEST_PATH :>
                       JsonFile(Manifest(image, Build(PathVal(DOCKERFILE_PATH), Absent),
                                         Absent, Absent, on_create, post_create,
                                         Absent, Absent)))
                  @@ (DOCKERFILE_PATH :> TextFile(text))
    /\ NewInstance(DEFAULT_IMAGE)

NextDockerfile ==
    \/ \E build_args \in BuildArgChoices : FirstCall /\ CallRender(build_args)
    \/ \E build_args \in BuildArgChoices : FirstCall /\ CallRenderStandalone(build_args)

SpecDockerfile == InitDockerfile /\ [][NextDockerfile]_vars

----------------------------------------------------------------------------
(* Specification SpecRender: one repository whose manifest has each        *)
(* optional field present or missing, or is not valid JSON, or names a     *)
(* Dockerfile that is missing; it is queried and rendered by both entry    *)
(* points, with and without build arguments.                               *)

\* containerEnv: missing, one entry, or an entry referring to the author's
\* machine before one whose value has an equals sign.
RenderEnvs ==
    {Absent,
     Dict(<<Entry(<<"A">>, Str(<<"v">>))>>),
     Dict(<<Entry(<<"A">>, Str(<<"${localEnv", ":", "v">>)), Entry(<<"B">>, Str(<<"v", "=">>))>>)}

\* customizations.vscode.extensions: missing, empty, one id, a blocked id
\* before another id.
RenderExtensions ==
    {Absent, List(<<>>), List(<< <<"some.extension">> >>),
     List(<< <<"github.copilot">>, <<"some.extension">> >>)}

RenderManifests ==
    {Manifest(image, build, container_env, remote_env, on_create, post_create,
              update_content, extensions) :
        image \in {Absent, Str(IMAGE)},
        build \in {Absent, Build(PathVal(DOCKERFILE_PATH), Absent)},
        container_env \in RenderEnvs,
        remote_env \in {Absent, Dict(<<Entry(<<"R">>, Str(<<"v">>))>>)},
        on_create \in {Absent, Str(<<"a">>)},
        post_create \in {Absent, Str(<<"b">>)},
        update_content \in {Absent, Str(<<"u">>)},
        extensions \in RenderExtensions}

InitRender ==
    /\ content = <<>>
    /\ binder_dir = <<>>
    /\ \/ \E m \in RenderManifests :
             \/ files = RepoOf(m)
             \/ files = (MANIFEST_PATH :> JsonFile(m))
       \/ files = (MANIFEST_PATH :> BadJsonFile)
                      @@ (DOCKERFILE_PATH :> TextFile(USER_DOCKERFILE))
    /\ NewInstance(DEFAULT_IMAGE)

NextRender ==
    \/ \E build_args \in BuildArgChoices : FirstCall /\ CallRenderStandalone(build_args)
    \/ \E build_args \in BuildArgChoices : FirstCall /\ CallRender(build_args)
    \/ FirstCall /\ CallDevcontainerConfig
    \/ FirstCall /\ CallGetBaseImage
    \/ FirstCall /\ CallGetBuildEnv
    \/ FirstCall /\ CallGetEnv

SpecRender == InitRender /\ [][NextRender]_vars

----------------------------------------------------------------------------
(* Specification SpecExt: a manifest declaring every short list of         *)
(* extension ids; the mapper is called, and the manifest is rendered.      *)

\* Two ids of the blocklist, two ids that are not on it, and the empty id.
ExtensionIds ==
    {<<"github.copilot">>, <<"ms-python.vscode-pylance">>,
     <<"some.extension">>, <<"other.extension">>, <<>>}

\* Manifests with only customizations.vscode.extensions, or without it.
ExtManifests ==
    {Manifest(Absent, Absent, Absent, Absent, Absent, Absent, Absent, extensions) :
        extensions \in {Absent} \cup {List(ids) : ids \in SeqsUpTo(ExtensionIds, MaxExts)}}

InitExt ==
    /\ content = <<>>
    /\ binder_dir = <<>>
    /\ \E m \in ExtManifests : files = (MANIFEST_PATH :> JsonFile(m))
    /\ NewInstance(DEFAULT_IMAGE)

\* bp._generate_extension_install_commands(): the pair (dockerfile_cmds, warnings).
CallGenerateExtensionInstallCommands ==
    LET cfg == _devcontainer_config(files, binder_dir, cache) IN
        /\ ~IsRaise(cfg.r)
        /\ Call("_generate_extension_install_commands", NoneVal,
                Done(cfg.c, [t |-> "tuple",
                             cmds |-> _generate_extension_install_commands(cfg.r).cmds,
                             warnings |-> _generate_extension_install_commands(cfg.r).warnings]))
        /\ UNCHANGED base_image

NextExt ==
    \/ FirstCall /\ CallGenerateExtensionInstallCommands
    \/ \E build_args \in BuildArgChoices : FirstCall /\ CallRenderStandalone(build_args)

SpecExt == InitExt /\ [][NextExt]_vars

----------------------------------------------------------------------------
(* What the lexer is required to do, stated without its loops.             *)

\* The lexical mode after the first k characters of s when s holds no
\* comment: "out" of any literal, "in" one, or "esc" (in one, right after a
\* backslash, so that the next character cannot end it).
RECURSIVE LitMode(_, _)
LitMode(s, k) ==
    IF k = 0 THEN "out"
    ELSE LET m == LitMode(s, k - 1) IN
        IF m = "esc" THEN "in"
        ELSE IF m = "in"
        THEN IF s[k] = BACKSLASH THEN "esc" ELSE IF s[k] = QUOTE THEN "out" ELSE "in"
        ELSE IF s[k] = QUOTE THEN "in" ELSE "out"

\* A comment token, // or /*, starts at position k.
CommentTokenAt(s, k) == k < Len(s) /\ s[k] = "/" /\ s[k + 1] \in {"/", "*"}

\* Every comment token of s lies inside a double-quoted literal.
OnlyInLiterals(s) ==
    \A k \in 1..Len(s) : CommentTokenAt(s, k) => LitMode(s, k - 1) # "out"

Drop(s, n) == SubSeq(s, n + 1, Len(s))

StartsWith(s, p) == Len(s) >= Len(p) /\ SubSeq(s, 1, Len(p)) = p

\* The JSONC reading of s from lexical mode `mode`: the characters kept, and
\* the mode the text ends in ("block" when a block comment is left open).
RECURSIVE RefScan(_, _)
RefScan(s, mode) ==
    IF s = <<>> THEN [kept |-> <<>>, end |-> mode]
    ELSE LET keep(rest, m) ==
                 LET r == RefScan(rest, m) IN [kept |-> <<Head(s)>> \o r.kept, end |-> r.end]
         IN CASE mode = "code" ->
                 IF StartsWith(s, <<"/", "/">>) THEN RefScan(Drop(s, 2), "line")
                 ELSE IF StartsWith(s, <<"/", "*">>) THEN RefScan(Drop(s, 2), "block")
                 ELSE keep(Tail(s), IF Head(s) = QUOTE THEN "string" ELSE "code")
              [] mode = "string" ->
                 IF Head(s) = BACKSLASH THEN keep(Tail(s), "escape")
                 ELSE keep(Tail(s), IF Head(s) = QUOTE THEN "code" ELSE "string")
              [] mode = "escape" -> keep(Tail(s), "string")
              [] mode = "line" ->
                 IF Head(s) = NEWLINE THEN RefScan(s, "code") ELSE RefScan(Tail(s), "line")
              [] mode = "block" ->
                 IF StartsWith(s, <<"*", "/">>) THEN RefScan(Drop(s, 2), "code")
                 ELSE RefScan(Tail(s), "block")

AllBlocksTerminated(s) == RefScan(s, "code").end # "block"

Stripped == op = "_strip_jsonc_comments"

\* C1: when // and /* occur only inside double-quoted literals (an escaped
\* quote does not end a literal), the stripper returns its input unchanged.
C1_StringsUntouched ==
    (Stripped /\ OnlyInLiterals(content)) => ret.s = content

\* An escaped quote followed by // inside the same literal, returned whole.
C1_Witness ==
    /\ Stripped
    /\ content = <<QUOTE, BACKSLASH, QUOTE, "/", "/">>
    /\ ret.s = content

\* C2: when every block comment is terminated, the stripper returns the input
\* minus each // outside a literal up to (not including) the next newline
\* and each /* outside a literal through the first following */.
C2_CommentsRemoved ==
    (Stripped /\ AllBlocksTerminated(content)) => ret.s = RefScan(content, "code").kept

\* A line comment is cut and the newline that ends it is kept.
C2_Witness ==
    /\ Stripped
    /\ content = <<"a", "/", "/", "a", NEWLINE>>
    /\ ret.s = <<"a", NEWLINE>>

----------------------------------------------------------------------------
(* What the command normalizer and the lifecycle RUNs are required to do.  *)

\* The manifest of the repository.
TheManifest == files[MANIFEST_PATH].json

\* The lifecycle command under test, and the other lifecycle field.
TestedIsOnCreate == TheManifest.postCreateCommand = Absent

Tested ==
    IF TestedIsOnCreate THEN TheManifest.onCreateCommand ELSE TheManifest.postCreateCommand

Formatted == op = "_format_lifecycle_command"

\* The position of the first piece of `text` equal to `piece` (0 if none).
IndexOf(text, piece) ==
    IF \E k \in 1..Len(text) : text[k] = piece
    THEN CHOOSE k \in 1..Len(text) : text[k] = piece /\ \A j \in 1..(k - 1) : text[j] # piece
    ELSE 0

LIFECYCLE_HEADER == "# Run lifecycle commands from devcontainer.json\n"

FALLBACK_COMMENT == "# JupyterHub will provide the start command (jupyterhub-singleuser)\n"

\* In a render_standalone script: what lies between the lifecycle header
\* and the blank line before the fallback CMD.
LifecycleSection(script) ==
    SubSeq(script, IndexOf(script, LIFECYCLE_HEADER) + 1, IndexOf(script, FALLBACK_COMMENT) - 2)

DOCKERFILE_CMD == "CMD [\"jupyter\", \"notebook\", \"--ip\", \"0.0.0.0\"]\n"

\* In a DockerfileMode script: what follows the appended fixed block.
TrailingSection(script) == SubSeq(script, IndexOf(script, DOCKERFILE_CMD) + 1, Len(script))

RenderedStandalone == op = "render_standalone" /\ ret.t = "str"

RenderedDockerfileMode == op = "render" /\ ret.t = "str" /\ HasDockerfile(TheManifest)

\* The rendering of a mapping in blocks: per entry with a non-empty command,
\* the line "# name" and on the next line the command; the blocks joined
\* by the separator AndContinue.
RECURSIVE BlockFormat(_)
EntryBlocks(items) ==
    SelectSeq([k \in 1..Len(items) |->
                   IF Truthy(BlockFormat(items[k].value))
                   THEN (CommentLine(items[k].name) \o <<NEWLINE>>)
                        \o BlockFormat(items[k].value).s
                   ELSE <<>>],
              LAMBDA b : b # <<>>)

BlockFormat(command) ==
    IF command.t # "dict" THEN _format_lifecycle_command(command)
    ELSE IF EntryBlocks(command.items) = <<>> THEN NoneVal
    ELSE Str(Join(EntryBlocks(command.items), AndContinue))

\* C4: a mapping is rendered as one block per entry with a non-empty command,
\* "# name" and the command on the next line, in declaration order, the
\* blocks (not the comment lines) joined by the separator AndContinue.
C4_NamedBlocks ==
    (Formatted /\ arg.t = "dict") => ret = BlockFormat(arg)

\* The characters the shell gives a meaning to, among those of the model and
\* the usual ones.
ShellSpecial ==
    {" ", "\t", NEWLINE, "&", "$", ";", "|", "<", ">", "(", ")",
     "*", "?", "#", "~", APOSTROPHE, QUOTE, BACKSLASH}

OPERATOR == <<"<shell operator>">>

\* The words a POSIX shell reads from a command line: unquoted blanks
\* separate words, single and double quotes group, and an unquoted special character
\* is reported as OPERATOR.
RECURSIVE ShellScan(_, _, _, _, _)
ShellScan(s, mode, cur, started, words) ==
    LET flush == IF started THEN Append(words, cur) ELSE words IN
    IF s = <<>> THEN flush
    ELSE LET h == Head(s) IN
        CASE mode = "plain" /\ h = " " -> ShellScan(Tail(s), "plain", <<>>, FALSE, flush)
          [] mode = "plain" /\ h = APOSTROPHE -> ShellScan(Tail(s), "single", cur, TRUE, words)
          [] mode = "plain" /\ h = QUOTE -> ShellScan(Tail(s), "double", cur, TRUE, words)
          [] mode = "plain" /\ h \in ShellSpecial \ {" ", APOSTROPHE, QUOTE} ->
                ShellScan(Tail(s), "plain", <<>>, FALSE, Append(flush, OPERATOR))
          [] mode = "single" /\ h = APOSTROPHE -> ShellScan(Tail(s), "plain", cur, TRUE, words)
          [] mode = "double" /\ h = QUOTE -> ShellScan(Tail(s), "plain", cur, TRUE, words)
          [] mode = "double" /\ h \in {"$", BACKSLASH} ->
                ShellScan(Tail(s), "double", <<>>, FALSE, Append(flush, OPERATOR))
          [] OTHER -> ShellScan(Tail(s), mode, Append(cur, h), TRUE, words)

ShellWords(s) == ShellScan(s, "plain", <<>>, FALSE, <<>>)

HasSpecial(token) == \E k \in 1..Len(token) : token[k] \in ShellSpecial

\* A token as one single-quoted word: each ' inside it closed, quoted and
\* reopened.
RECURSIVE SingleQuotedBody(_)
SingleQuotedBody(token) ==
    IF token = <<>> THEN <<>>
    ELSE IF Head(token) = APOSTROPHE
    THEN <<APOSTROPHE, QUOTE, APOSTROPHE, QUOTE, APOSTROPHE>> \o SingleQuotedBody(Tail(token))
    ELSE <<Head(token)>> \o SingleQuotedBody(Tail(token))

SingleQuoted(token) == (<<APOSTROPHE>> \o SingleQuotedBody(token)) \o <<APOSTROPHE>>

\* C5 as stated: the tokens in order, joined by single spaces, those without
\* whitespace or shell metacharacters unchanged and the others as one quoted
\* word; the shell reads back exactly the tokens.
C5_TokensUnchangedOrQuoted ==
    (Formatted /\ arg.t = "list") =>
        /\ ret = Str(Join([k \in 1..Len(arg.parts) |->
                               IF ~HasSpecial(arg.parts[k]) THEN arg.parts[k]
                               ELSE SingleQuoted(arg.parts[k])],
                          <<" ">>))
        /\ ShellWords(ret.s) = arg.parts

\* A token made only of the characters [A-Za-z0-9_@%+=:,./-], and not empty.
PlainToken(token) == token # <<>> /\ \A k \in 1..Len(token) : token[k] \in SafeChars

\* C5, amended: as stated, except that the tokens emitted unchanged are the
\* non-empty ones made only of [A-Za-z0-9_@%+=:,./-]; every other token, the
\* empty one included (''), is emitted as one single-quoted word.
C5_TokensPlainOrQuoted ==
    (Formatted /\ arg.t = "list") =>
        /\ ret = Str(Join([k \in 1..Len(arg.parts) |->
                               IF PlainToken(arg.parts[k]) THEN arg.parts[k]
                               ELSE SingleQuoted(arg.parts[k])],
                          <<" ">>))
        /\ ShellWords(ret.s) = arg.parts

\* A token with a blank and an empty token, each one quoted word.
C5_Witness ==
    /\ Formatted
    /\ arg = List(<< <<"a", " ">>, <<>> >>)
    /\ ret.s = <<APOSTROPHE, "a", " ", APOSTROPHE, " ", APOSTROPHE, APOSTROPHE>>

\* f"RUN {cmd}\n\n", the instruction expected for a command.
RunOf(text) == (<<"RUN ">> \o text) \o <<NEWLINE, NEWLINE>>

\* The RUN instructions expected around the tested command's own
\* instructions `own`: the other field's command, when there is one, is
\* postCreateCommand's neighbour onCreateCommand and comes first.
WithOther(own, run(_)) ==
    IF TestedIsOnCreate THEN own ELSE run(TheManifest.onCreateCommand.s) \o own

\* C6: a non-empty string command is normalized to itself, and
\* render_standalone carries it verbatim as the body of its own RUN.
C6_StringVerbatim ==
    /\ (Formatted /\ arg.t = "str" /\ arg.s # <<>>) => ret = arg
    /\ (RenderedStandalone /\ Tested.t = "str" /\ Tested.s # <<>>) =>
           LifecycleSection(ret.s) = WithOther(RunOf(Tested.s), RunOf)

\* A command with a quote, a blank and a metacharacter in its own RUN, after
\* the RUN of the other command.
C6_Witness ==
    /\ RenderedStandalone
    /\ ~TestedIsOnCreate
    /\ Tested = Str(<<APOSTROPHE, "$">>)
    /\ LifecycleSection(ret.s) =
           <<"RUN ", "b", NEWLINE, NEWLINE, "RUN ", APOSTROPHE, "$", NEWLINE, NEWLINE>>

\* A value that normalizes to nothing: absent, of no command shape, an empty
\* string or sequence, or a mapping all of whose entries normalize to nothing.
RECURSIVE NormalizesToNothing(_)
NormalizesToNothing(v) ==
    CASE v.t = "str" -> v.s = <<>>
      [] v.t = "list" -> v.parts = <<>>
      [] v.t = "dict" -> \A k \in 1..Len(v.items) : NormalizesToNothing(v.items[k].value)
      [] OTHER -> TRUE

\* The values C7 is about: absent, an empty mapping, a mapping (at any depth)
\* whose every entry normalizes to nothing, or a value of no command shape.
YieldsNoCommand(v) == v.t \notin {"str", "list"} /\ NormalizesToNothing(v)

\* f"\nRUN {cmd}\n", the trailing instruction of DockerfileMode.
TrailingRunOf(text) == (<<NEWLINE, "RUN ">> \o text) \o <<NEWLINE>>

\* C7: such a value is normalized to None (not "", not an error), and neither
\* renderer emits a RUN for its lifecycle field.
C7_NoCommandNoRun ==
    /\ (Formatted /\ YieldsNoCommand(arg)) => ret = NoneVal
    /\ (RenderedStandalone /\ YieldsNoCommand(Get(Tested))) =>
           LifecycleSection(ret.s) = WithOther(<<>>, RunOf)
    /\ (RenderedDockerfileMode /\ YieldsNoCommand(Get(Tested))) =>
           TrailingSection(ret.s) = WithOther(<<>>, TrailingRunOf)

\* A mapping nested in a mapping, every entry empty: no RUN of its own after
\* the other command's.
C7_Witness ==
    /\ RenderedStandalone
    /\ ~TestedIsOnCreate
    /\ Tested = Dict(<<Entry(<<"x">>, Dict(<<Entry(<<"y">>, Str(<<>>))>>)), Entry(<<"y">>, NoneVal)>>)
    /\ LifecycleSection(ret.s) = <<"RUN ", "b", NEWLINE, NEWLINE>>

----------------------------------------------------------------------------
(* What the locator is required to do.                                     *)

\* The places the locator is to consult, in order: the three names under the
\* configuration subdirectory when one is in use, at the root otherwise.
Consulted == [k \in 1..Len(DEVCONTAINER_PATHS) |-> binder_dir \o DEVCONTAINER_PATHS[k]]

Exists(p) == p \in DOMAIN files

\* The call located the manifest itself instead of answering from its cache.
Located == "_devcontainer_path" \in computed

\* C3: the locator returns the first existing one of the consulted places,
\* which are at the root only when no configuration subdirectory is in use,
\* and None when none exists; detect() is True exactly when a path is
\* returned.
C3_FirstExistingPath ==
    /\ (op = "_devcontainer_path" /\ Located) =>
           \/ ret = NoneVal /\ \A k \in DOMAIN Consulted : ~Exists(Consulted[k])
           \/ \E k \in DOMAIN Consulted :
                  /\ ret = PathVal(Consulted[k])
                  /\ Exists(Consulted[k])
                  /\ \A j \in 1..(k - 1) : ~Exists(Consulted[j])
    /\ (op = "detect" /\ Located) =>
           ret = Bool(\E k \in DOMAIN Consulted : Exists(Consulted[k]))
    /\ (op = "detect") => ret = Bool(cache["_devcontainer_path"].v # NoneVal)

\* With binder/ in use and a manifest at the root only, nothing is detected.
C3_Witness ==
    /\ op = "detect"
    /\ Located
    /\ binder_dir = BINDER
    /\ DOMAIN files = {<<"devcontainer.json">>}
    /\ ret = Bool(FALSE)

----------------------------------------------------------------------------
(* What environment extraction is required to do.                          *)

\* The value refers to the author's machine: it contains ${localEnv: or
\* ${localWorkspaceFolder .
RefersToLocal(value) ==
    \/ \E k \in 1..(Len(value) - 1) : value[k] = "${localEnv" /\ value[k + 1] = ":"
    \/ \E k \in 1..Len(value) : value[k] = "${localWorkspaceFolder"

\* The entries to retain, in insertion order.
Retained(env) == SelectSeq(Items(env), LAMBDA e : ~RefersToLocal(e.value.s))

ENV_HEADER == "# Environment variables from devcontainer.json\n"

WORKDIR_HEADER == "# Set working directory\n"

\* In a render_standalone script: what lies between the environment header
\* and the blank line before the working directory.
EnvSection(script) ==
    SubSeq(script, IndexOf(script, ENV_HEADER) + 1, IndexOf(script, WORKDIR_HEADER) - 2)

\* C8: get_build_env (containerEnv), get_env (remoteEnv) and the ENV lines of
\* render_standalone hold exactly the entries whose value has neither
\* reference, in insertion order, key and value unchanged and whole.
C8_LocalReferencesDropped ==
    /\ (op = "get_build_env") =>
           ret = Pairs([k \in DOMAIN Retained(TheManifest.containerEnv) |->
                           <<Retained(TheManifest.containerEnv)[k].name,
                             Retained(TheManifest.containerEnv)[k].value.s>>])
    /\ (op = "get_env") =>
           ret = Pairs([k \in DOMAIN Retained(TheManifest.remoteEnv) |->
                           <<Retained(TheManifest.remoteEnv)[k].name,
                             Retained(TheManifest.remoteEnv)[k].value.s>>])
    /\ (op = "render_standalone" /\ ret.t = "str") =>
           EnvSection(ret.s) =
               Concat([k \in DOMAIN Retained(TheManifest.containerEnv) |->
                           (((<<"ENV ">> \o Retained(TheManifest.containerEnv)[k].name)
                             \o <<"=">>) \o Retained(TheManifest.containerEnv)[k].value.s)
                           \o <<NEWLINE>>])

\* A ${localEnv: value is dropped and a value with = is kept whole.
C8_Witness ==
    /\ op = "get_build_env"
    /\ TheManifest.containerEnv =
           Dict(<<Entry(<<"A">>, Str(<<"${localEnv", ":">>)), Entry(<<"B">>, Str(<<"=", "v">>))>>)
    /\ ret = Pairs(<< <<(<<"B">>), <<"=", "v">> >> >>)

----------------------------------------------------------------------------
(* What base image resolution and the choice of render mode are required  *)
(* to do.                                                                  *)

\* The manifest as the instance parsed it.
ParsedManifest == cache["_devcontainer_config"].v

\* C9: a resolution of the base image gives the manifest's image when it has
\* one, else None when it has build.dockerfile, else the default base image
\* the caller supplied.
C9_BaseImageResolution ==
    (op = "_get_base_image" /\ "_get_base_image" \in computed) =>
        ret = IF ParsedManifest.image # Absent THEN ParsedManifest.image
              ELSE IF HasDockerfile(ParsedManifest) THEN NoneVal
              ELSE Str(ctor_base_image)

RenderedScript == op \in {"render", "render_standalone"} /\ ret.t = "str"

\* C10: a manifest with build.dockerfile is rendered from its Dockerfile by
\* both entry points, its image not being the FROM base; one without is
\* rendered FROM a base image.
C10_DockerfileDecidesMode ==
    /\ (RenderedScript /\ HasDockerfile(ParsedManifest) /\ ParsedManifest.image # Absent) =>
           /\ ~StartsWith(ret.s, <<"FROM ">> \o ParsedManifest.image.s)
           /\ Exists(DOCKERFILE_PATH) => StartsWith(ret.s, files[DOCKERFILE_PATH].text)
    /\ (RenderedScript /\ ~HasDockerfile(ParsedManifest)) => StartsWith(ret.s, <<"FROM ">>)

----------------------------------------------------------------------------
(* What the renderers are required to put into the script.                 *)

\* The content of the user's Dockerfile.
UserText == files[DOCKERFILE_PATH].text

\* f"\nRUN {cmd}\n" for a lifecycle field holding a non-empty string.
TrailingRunFor(command) ==
    IF command = Absent THEN <<>> ELSE TrailingRunOf(command.s)

\* C11: in DockerfileMode the script is the user's Dockerfile, unmodified,
\* followed by what is added: the fixed block up to its CMD line, then the
\* lifecycle instructions.  Nothing comes before the user's text.
C11_UserDockerfileFirst ==
    RenderedDockerfileMode =>
        /\ StartsWith(ret.s, UserText)
        /\ StartsWith(Drop(ret.s, Len(UserText)), AdditionsProlog)
        /\ TrailingSection(Drop(ret.s, Len(UserText))) =
               TrailingRunFor(TheManifest.onCreateCommand)
                   \o TrailingRunFor(TheManifest.postCreateCommand)

\* The manifest file holds valid JSON.
GoodManifest == files[MANIFEST_PATH].kind = "json"

\* f"ENV {key}={value}\n" of an entry.
EnvLineOf(entry) ==
    (((<<"ENV ">> \o entry.name) \o <<"=">>) \o entry.value.s) \o <<NEWLINE>>

\* C12: in both render modes the script has the ENV line of every retained
\* containerEnv entry.
C12_EnvLinesInBothModes ==
    (RenderedStandalone \/ RenderedDockerfileMode) =>
        \A k \in DOMAIN Retained(TheManifest.containerEnv) :
            Contains(ret.s, EnvLineOf(Retained(TheManifest.containerEnv)[k]))


EXPOSE_LINE == "EXPOSE 8888\n"

SINGLEUSER_CMD == "CMD [\"jupyterhub-singleuser\", \"--ip=0.0.0.0\", \"--port=8888\"]\n"

\* The CMD instructions a script holds, in order.
CmdLines(script) ==
    SelectSeq(script, LAMBDA piece : piece \in {SINGLEUSER_CMD, DOCKERFILE_CMD})

\* C13: every script rendered by render_standalone or from a custom
\* Dockerfile has the line EXPOSE 8888, and its entrypoint (the last CMD of
\* the script) invokes jupyterhub-singleuser.
C13_ExposeAndSingleUserCmd ==
    (RenderedStandalone \/ RenderedDockerfileMode) =>
        /\ \E k \in 1..Len(ret.s) : ret.s[k] = EXPOSE_LINE
        /\ CmdLines(ret.s) # <<>>
        /\ CmdLines(ret.s)[Len(CmdLines(ret.s))] = SINGLEUSER_CMD


\* The lines of the user set-up, the virtual environment and the copy step
\* that fix the uid, the gid and the owner at 1000.
FIXED_UID_LINES ==
    {"ARG NB_UID=1000\n",
     "    NB_UID=1000\n",
     "RUN groupadd --gid 1000 ${NB_USER} && \\\n",
     "    useradd --comment \"Default user\" --create-home --gid 1000 \\\n",
     "            --no-log-init --shell /bin/bash --uid 1000 ${NB_USER}\n",
     "ENV VIRTUAL_ENV=/opt/venv\n",
     "    chown -R 1000:1000 $VIRTUAL_ENV\n",
     "COPY --chown=1000:1000 . ${REPO_DIR}/\n"}

\* The lines of a script that are among `lines`, in order.
Among(script, lines) == SelectSeq(script, LAMBDA piece : piece \in lines)

\* C14: whatever the manifest, the script of render_standalone has, once
\* each and in this order, the declaration of NB_UID=1000, the creation of
\* group and user with gid and uid 1000, the virtual environment at
\* /opt/venv owned by 1000:1000 and the copy of the repository with
\* --chown=1000:1000.
C14_FixedUidFragments ==
    RenderedStandalone =>
        Among(ret.s, FIXED_UID_LINES) =
            <<"ARG NB_UID=1000\n",
              "    NB_UID=1000\n",
              "RUN groupadd --gid 1000 ${NB_USER} && \\\n",
              "    useradd --comment \"Default user\" --create-home --gid 1000 \\\n",
              "            --no-log-init --shell /bin/bash --uid 1000 ${NB_USER}\n",
              "ENV VIRTUAL_ENV=/opt/venv\n",
              "    chown -R 1000:1000 $VIRTUAL_ENV\n",
              "COPY --chown=1000:1000 . ${REPO_DIR}/\n">>

\* A render_standalone of a manifest with every optional field, called with
\* both build arguments.
C14_Witness ==
    /\ RenderedStandalone
    /\ \A field \in {"image", "containerEnv", "remoteEnv", "onCreateCommand",
                     "postCreateCommand"} : TheManifest[field] # Absent
    /\ arg.NB_UID # Absent
    /\ arg.NB_USER # Absent


\* build_args.get(key), or the platform's value when it is not given.
Supplied(v, platform) == IF v = Absent THEN platform ELSE v.s

\* The ways a script declares the user id `uid`: the ARG line, written as
\* one template line (for 1000) or with the value substituted into it.
UidDeclarations(uid) ==
    {(<<"ARG NB_UID=">> \o uid) \o <<NEWLINE>>}
        \cup (IF uid = <<"1000">> THEN {<<"ARG NB_UID=1000\n">>} ELSE {})

\* C15: in both render modes the script declares the user name and the user
\* id given as build arguments, and jovyan and 1000 when they are not given.
C15_BuildArgsSubstituted ==
    (RenderedStandalone \/ RenderedDockerfileMode) =>
        /\ Contains(ret.s, (<<"ARG NB_USER=">> \o Supplied(arg.NB_USER, <<"jovyan">>))
                               \o <<NEWLINE>>)
        /\ \E declaration \in UidDeclarations(Supplied(arg.NB_UID, <<"1000">>)) :
               Contains(ret.s, declaration)


\* The methods that parse the manifest.
PARSING_CALLS ==
    {"_devcontainer_config", "_get_base_image", "get_build_env", "get_env",
     "render", "render_standalone"}

\* C16: a call that parses a manifest that is not valid JSON raises, and a
\* render of a manifest with build.dockerfile whose Dockerfile is missing
\* raises: no script is returned in either case.
C16_FailuresSurface ==
    /\ (op \in PARSING_CALLS /\ ~GoodManifest) => IsRaise(ret)
    /\ (/\ op \in {"render", "render_standalone"}
        /\ GoodManifest
        /\ HasDockerfile(TheManifest)
        /\ ~Exists(DOCKERFILE_PATH)) => IsRaise(ret)


INSTALL_EXTENSION == "openvscode-server --install-extension "

\* How many pieces of `text` are `piece`.
Count(text, piece) == Len(SelectSeq(text, LAMBDA p : p = piece))

\* How many of the fields are in the manifest.
Present(config, fields) == Cardinality({f \in fields : config[f] # Absent})

\* C17: a render_standalone that parses the manifest and resolves the base
\* image returns a script, whichever optional fields are missing; without
\* image the script is FROM the default base image the caller supplied;
\* without containerEnv it has no manifest ENV line, it has no more
\* lifecycle RUNs than lifecycle fields, and without extensions it
\* installs no extension.
C17_AbsentFieldsDegrade ==
    (op = "render_standalone" /\ {"_devcontainer_config", "_get_base_image"} \subseteq computed) =>
        /\ ret.t = "str"
        /\ ParsedManifest.image = Absent =>
               StartsWith(ret.s, (<<"FROM ">> \o ctor_base_image) \o <<NEWLINE>>)
        /\ ParsedManifest.containerEnv = Absent => EnvSection(ret.s) = <<>>
        /\ Count(LifecycleSection(ret.s), "RUN ")
               <= Present(ParsedManifest, {"onCreateCommand", "postCreateCommand"})
        /\ ParsedManifest.extensions = Absent => Count(ret.s, INSTALL_EXTENSION) = 0


----------------------------------------------------------------------------
(* What the extension mapper is required to return.                        *)

\* The extension ids the manifest declares.
Declared ==
    IF TheManifest.extensions = Absent THEN <<>> ELSE TheManifest.extensions.parts

\* The declared entries that are on the blocklist, and those that are not.
\* The remap table of the program is empty: no id is replaced.
BlockedEntries == SelectSeq(Declared, LAMBDA id : id \in PROPRIETARY_EXTENSIONS)

PassedEntries == SelectSeq(Declared, LAMBDA id : id \notin PROPRIETARY_EXTENSIONS)

\* The ids a text installs: what follows each install command, up to the
\* separator or the end of the line.
InstallList(text) ==
    LET at == SelectSeq([k \in 1..Len(text) |-> k], LAMBDA k : text[k] = INSTALL_EXTENSION)
    IN [j \in 1..Len(at) |->
            IF at[j] < Len(text) /\ text[at[j] + 1] \notin {" && \\\n    ", NEWLINE}
            THEN <<text[at[j] + 1]>>
            ELSE <<>>]

\* C18: the mapper installs the declared ids that are not on the blocklist,
\* in the declared order, duplicates included, and returns one warning per
\* declared entry on the blocklist, naming its id; a render of the manifest
\* returns a script that installs the same ids.
C18_InstallListAndWarnings ==
    /\ (op = "_generate_extension_install_commands") =>
           /\ InstallList(ret.cmds) = PassedEntries
           /\ Len(ret.warnings) = Len(BlockedEntries)
           /\ \A k \in 1..Len(BlockedEntries) : Contains(ret.warnings[k], BlockedEntries[k])
    /\ (op = "render_standalone") =>
           /\ ret.t = "str"
           /\ InstallList(ret.s) = PassedEntries


----------------------------------------------------------------------------
(* The lexer on a block comment that is never closed.                      *)

\* C19: when a block comment opened outside a literal is never closed, the
\* stripper returns the stripped text before its opening and nothing of
\* what follows, the last character of the input included.
C19_UnterminatedBlockConsumed ==
    (Stripped /\ ~AllBlocksTerminated(content)) => ret.s = RefScan(content, "code").kept


----------------------------------------------------------------------------
(* The order of the manifest's instructions in a script.                   *)

\* Where `script` has the instruction RUN `command` on a line of its own.
RunPositions(script, command) ==
    IF command = Absent THEN {}
    ELSE {k \in 1..Len(script) :
              /\ script[k] = "RUN "
              /\ k + Len(command.s) + 1 <= Len(script)
              /\ SubSeq(script, k + 1, k + Len(command.s) + 1) = command.s \o <<NEWLINE>>}

\* Where `script` has the piece.
Positions(script, piece) == {k \in 1..Len(script) : script[k] = piece}

OnCreateRuns == RunPositions(ret.s, TheManifest.onCreateCommand)

PostCreateRuns == RunPositions(ret.s, TheManifest.postCreateCommand)

PIP_INSTALL == "RUN pip install --no-cache-dir \\\n"

\* C20: a script has one RUN of its own for onCreateCommand and one for
\* postCreateCommand when the manifest has them, the first before the
\* second, and nothing of updateContentCommand; render_standalone installs
\* the extensions after the pip install step and before the lifecycle RUNs;
\* in a script made from a Dockerfile the lifecycle RUNs come after the
\* appended block.
C20_FixedOrder ==
    /\ RenderedScript =>
           /\ Cardinality(OnCreateRuns) = Present(TheManifest, {"onCreateCommand"})
           /\ Cardinality(PostCreateRuns) = Present(TheManifest, {"postCreateCommand"})
           /\ \A i \in OnCreateRuns, j \in PostCreateRuns : i < j
           /\ RunPositions(ret.s, TheManifest.updateContentCommand) = {}
           /\ TheManifest.updateContentCommand # Absent =>
                  \A k \in 1..Len(TheManifest.updateContentCommand.s) :
                      Count(ret.s, TheManifest.updateContentCommand.s[k]) = 0
    /\ RenderedStandalone =>
           \A e \in Positions(ret.s, INSTALL_EXTENSION) :
               /\ \E p \in Positions(ret.s, PIP_INSTALL) : p < e
               /\ \A r \in OnCreateRuns \cup PostCreateRuns : e < r
    /\ RenderedDockerfileMode =>
           \A r \in OnCreateRuns \cup PostCreateRuns :
               \E c \in Positions(ret.s, DOCKERFILE_CMD) : c < r

\* A render_standalone that installs an extension and has both lifecycle
\* RUNs, of a manifest that also has an updateContentCommand.
C20_Witness ==
    /\ RenderedStandalone
    /\ Positions(ret.s, INSTALL_EXTENSION) # {}
    /\ OnCreateRuns # {}
    /\ PostCreateRuns # {}
    /\ TheManifest.updateContentCommand # Absent


----------------------------------------------------------------------------
(* Memoization of the location and of the parse.                           *)

\* The steps that are calls of a method of the instance.
IsCall(name) == name \notin {"", "create", "write", "remove", "cache_clear"}

\* What the manifest on disk holds now.
ManifestOnDisk == IF Exists(MANIFEST_PATH) THEN TheManifest ELSE EmptyManifest

\* C21 as stated: once _devcontainer_config has been called on an
\* instance, every later call of it gives what that first call gave, until
\* a cache is cleared.
C21_FirstCallKept ==
    (op = "_devcontainer_config" /\ first_parse # NoneVal) => ret = first_parse

\* A call on the instance leaves a memoized location and a memoized parse as
\* they are, runs neither body again, and returns them.
MemoKept ==
    IsCall(op') =>
        /\ \A m \in {"_devcontainer_path", "_devcontainer_config"} :
               cache[m].t = "hit" => cache'[m] = cache[m] /\ m \notin computed'
        /\ (op' = "_devcontainer_path" /\ cache["_devcontainer_path"].t = "hit") =>
               ret' = cache["_devcontainer_path"].v
        /\ (op' = "detect" /\ cache["_devcontainer_path"].t = "hit") =>
               ret' = Bool(cache["_devcontainer_path"].v # NoneVal)
        /\ (op' = "_devcontainer_config" /\ cache["_devcontainer_config"].t = "hit") =>
               ret' = cache["_devcontainer_config"].v

\* The first parse of a fresh instance reads the manifest that is on disk.
FreshInstanceReads ==
    (op = "" /\ op' = "_devcontainer_config") => ret' = ManifestOnDisk

\* C21, amended: once a call of _devcontainer_path or _devcontainer_config
\* has returned, every later call on the instance gives that location and
\* that parse without locating or reading again, whatever happens to the
\* file, until the cache is cleared (a call that raised has memoized
\* nothing); a fresh instance reads the file on disk.
C21_MemoizedUntilCleared ==
    /\ []((op = "_devcontainer_config" /\ ~IsRaise(first_parse)) => ret = first_parse)
    /\ [][MemoKept /\ FreshInstanceReads]_vars

\* A call answered from the memoized parse after the manifest was changed
\* on disk.
C21_Witness ==
    /\ op = "_devcontainer_config"
    /\ "_devcontainer_config" \notin computed
    /\ ~IsRaise(ret)
    /\ ret # ManifestOnDisk


----------------------------------------------------------------------------
(* The default base image of the instance.                                 *)

\* C22: whatever has been called on the instance, self.base_image is the
\* default base image it was constructed with, and a manifest with neither
\* image nor build.dockerfile resolves to it.
C22_DefaultBaseImageKept ==
    /\ base_image = ctor_base_image
    /\ (/\ op = "_get_base_image"
        /\ "_get_base_image" \in computed
        /\ ParsedManifest.image = Absent
        /\ ~HasDockerfile(ParsedManifest)) => ret = Str(ctor_base_image)

====
